---------------------------- MODULE Spec2Model ----------------------------
(***************************************************************************)
(* A model of two parts of pymedphys:                                      *)
(*   - the Pinnacle export facade (exporttool/pinnacle.py): the lazily     *)
(*     populated patient_info / plans / images properties, the DOB         *)
(*     normalisation and export_image;                                     *)
(*   - the DICOM RT Dose toolbox (dicom/dose.py): depth_dose, profile,     *)
(*     get_dose_grid_structure_mask, find_dose_within_structure and        *)
(*     create_dvh.                                                         *)
(* Python strings are sequences of one-character strings, dicts are        *)
(* functions over their keys, lists and arrays are sequences.              *)
(***************************************************************************)
EXTENDS Integers, Sequences, FiniteSets, TLC

VARIABLES
    \* ---- Pinnacle facade ----
    patient_file,    \* the dict pinn_to_dict returns for <path>/Patient
    _patient_info,   \* self._patient_info
    _plans,          \* self._plans
    _images,         \* self._images
    reads,           \* number of pinn_to_dict calls made so far
    plan_builds,     \* number of times the plan list has been (re)built
    image_builds,    \* number of times the image list has been (re)built
    accesses,        \* number of operations invoked on the facade
    ret,             \* the last operation on the facade and its outcome
    converted,       \* convert_image calls made by the last export_image
    \* ---- DOB normalisation on its own ----
    dob_parts,       \* <<year, month, day>> of the date of birth
    dob_out,         \* delimiter -> normalised DOB ("" until computed)
    \* ---- DICOM RT Dose toolbox ----
    dose_dataset,    \* the RT Dose dataset handed to the toolbox
    plan_dataset,    \* the RT Plan dataset handed to depth_dose / profile
    dose_ret,        \* the depth_dose / profile call made and its outcome
    dcm_struct,      \* the contours of the structure, as pull_structure reads them
    vol_ret          \* the mask / DVH call made and its outcome

facade_vars == <<patient_file, _patient_info, _plans, _images, reads,
                 plan_builds, image_builds, accesses, ret, converted>>
dob_vars == <<dob_parts, dob_out>>
dose_vars == <<dose_dataset, plan_dataset, dose_ret>>
vol_vars == <<dcm_struct, vol_ret>>
vars == <<facade_vars, dob_vars, dose_vars, vol_vars>>

\* What an operation on the facade leaves alone, and what the DOB block does.
not_facade_vars == <<dob_vars, dose_vars, vol_vars>>
not_dob_vars == <<facade_vars, dose_vars, vol_vars>>
not_dose_vars == <<facade_vars, dob_vars, vol_vars>>
not_vol_vars == <<facade_vars, dob_vars, plan_dataset, dose_ret>>

-----------------------------------------------------------------------------
(* Bounds of the model. *)

MaxAccess == 3     \* operations invoked on one facade
MaxPlans == 1      \* entries of PlanList
MaxImages == 2     \* entries of ImageSetList
MaxExports == 2    \* export_image calls on one facade
MaxBeams == 2      \* beams of a plan
MaxQuery == 2      \* depths / displacements of one query
MaxContours == 2   \* contours of a structure

-----------------------------------------------------------------------------
(* Python values. *)

\* Python values that may be None carry their type: None, a list, a dict,
\* or an object of a class that defines neither __bool__ nor __len__.
None == [type |-> "NoneType"]
List(s) == [type |-> "list", v |-> s]
Dict(f) == [type |-> "dict", v |-> f]
Object(o) == [type |-> "object", v |-> o]

\* bool(x): None and the empty containers are falsy.
Truthy(x) ==
    CASE x.type = "NoneType" -> FALSE
      [] x.type = "list" -> Len(x.v) > 0
      [] x.type = "dict" -> DOMAIN x.v /= {}
      [] OTHER -> TRUE

\* d[k] = v on a dict.
DictSet(d, k, v) == [x \in DOMAIN d \cup {k} |-> IF x = k THEN v ELSE d[x]]

\* k in s, for a one-character k and a string s.
CharIn(k, s) == \E i \in 1..Len(s) : s[i] = k

\* s.split(sep) for a one-character sep: every occurrence splits, empty
\* pieces are kept.
RECURSIVE StrSplit(_, _)
StrSplit(s, sep) ==
    IF ~CharIn(sep, s) THEN <<s>>
    ELSE LET i == CHOOSE j \in 1..Len(s) :
                      s[j] = sep /\ \A k \in 1..(j - 1) : s[k] /= sep
         IN <<SubSeq(s, 1, i - 1)>> \o StrSplit(SubSeq(s, i + 1, Len(s)), sep)

-----------------------------------------------------------------------------
(* Pinnacle.patient_info: the DOB normalisation. *)

\* The delimiter the DOB is split on: '-' first, then '/', else ' '.
DobDelimiter(dobstr) ==
    IF CharIn("-", dobstr) THEN "-"
    ELSE IF CharIn("/", dobstr) THEN "/"
    ELSE " "

\* A DOB component without the zero padding (a plausible slip).
PadNumNoPad(num) == num

\* One DOB component: a single character is left-padded with '0'.
PadNum(num) == IF Len(num) = 1 THEN <<"0">> \o num ELSE num

\* dob = ""; for num in dob_list: ...; dob = dob + num
RECURSIVE ConcatPadded(_)
ConcatPadded(dob_list) ==
    IF dob_list = <<>> THEN <<>>
    ELSE PadNum(Head(dob_list)) \o ConcatPadded(Tail(dob_list))

\* The value stored under 'DOB' for the string stored under 'DateOfBirth'.
NormaliseDOB(dobstr) == ConcatPadded(StrSplit(dobstr, DobDelimiter(dobstr)))

\* "{0}^{1}^{2}^".format(last, first, middle)
FullName(last, first, middle) ==
    last \o <<"^">> \o first \o <<"^">> \o middle \o <<"^">>

-----------------------------------------------------------------------------
(* The Patient files of the model. *)

NameKeys == {"LastName", "FirstName", "MiddleName", "DateOfBirth"}

DobStrings == { <<"1","9","9","0","-","0","1","-","0","2">>,
                <<"1","9","9","0","/","1","/","2">> }

SeriesUIDs == {"1.2.3", "1.2.4"}

SeqsUpTo(S, n) == UNION {[1..k -> S] : k \in 0..n}

\* What pinn_to_dict returns: PlanList and ImageSetList are present, each of
\* the name and date-of-birth keys may be missing.  An image set carries the
\* SeriesUID its first header record (image_info[0]) holds.
PatientFiles(present_sets) ==
    { [k \in present \cup {"PlanList", "ImageSetList"} |->
          CASE k = "LastName" -> <<"D","o","e">>
            [] k = "FirstName" -> <<"J","a","n","e">>
            [] k = "MiddleName" -> <<>>
            [] k = "DateOfBirth" -> dob
            [] k = "PlanList" -> [i \in 1..np |-> [PlanID |-> i]]
            [] k = "ImageSetList" ->
                 [i \in 1..Len(uids) |-> [ImageSetID |-> i, SeriesUID |-> uids[i]]]] :
        present \in present_sets, dob \in DobStrings,
        np \in 0..MaxPlans, uids \in SeqsUpTo(SeriesUIDs, MaxImages) }

-----------------------------------------------------------------------------
(* Pinnacle.patient_info, Pinnacle.plans, Pinnacle.images.                 *)
(* Each operator gives the facade's fields after the access, whether the   *)
(* access raised, and what it did.                                         *)

\* The property getter of patient_info on cache value pi.
PatientInfoGet(pi, file) ==
    IF Truthy(pi) THEN [pi |-> pi, raised |-> FALSE, read |-> 0]
    ELSE LET d0 == file
         IN IF ~({"LastName", "FirstName", "MiddleName"} \subseteq DOMAIN d0)
            THEN [pi |-> Dict(d0), raised |-> TRUE, read |-> 1]
            ELSE LET d1 == DictSet(d0, "FullName",
                              FullName(d0["LastName"], d0["FirstName"],
                                       d0["MiddleName"]))
                 IN IF "DateOfBirth" \notin DOMAIN d1
                    THEN [pi |-> Dict(d1), raised |-> TRUE, read |-> 1]
                    ELSE [pi |-> Dict(DictSet(d1, "DOB",
                                      NormaliseDOB(d1["DateOfBirth"]))),
                          raised |-> FALSE, read |-> 1]

\* The property getter of plans: PinnaclePlan(self, path_plan, plan) per
\* entry of PlanList.
PlansGet(pl, pi, file) ==
    IF Truthy(pl)
    THEN [plans |-> pl, pi |-> pi, raised |-> FALSE, read |-> 0, built |-> 0]
    ELSE LET g == PatientInfoGet(pi, file)
         IN IF g.raised
            THEN [plans |-> List(<<>>), pi |-> g.pi, raised |-> TRUE,
                  read |-> g.read, built |-> 1]
            ELSE [plans |-> List([i \in 1..Len(g.pi.v["PlanList"]) |->
                                     [plan |-> g.pi.v["PlanList"][i]]]),
                  pi |-> g.pi, raised |-> FALSE, read |-> g.read, built |-> 1]

\* The property getter of images: PinnacleImage(self, path, image) per entry
\* of ImageSetList.
ImagesGet(im, pi, file) ==
    IF Truthy(im)
    THEN [images |-> im, pi |-> pi, raised |-> FALSE, read |-> 0, built |-> 0]
    ELSE LET g == PatientInfoGet(pi, file)
         IN IF g.raised
            THEN [images |-> List(<<>>), pi |-> g.pi, raised |-> TRUE,
                  read |-> g.read, built |-> 1]
            ELSE [images |-> List([i \in 1..Len(g.pi.v["ImageSetList"]) |->
                                      [image |-> g.pi.v["ImageSetList"][i]]]),
                  pi |-> g.pi, raised |-> FALSE, read |-> g.read, built |-> 1]

-----------------------------------------------------------------------------
(* Pinnacle.export_image. *)

\* The scan without its break: every matching image is converted (a
\* plausible slip).
ScanMatchesNoBreak(images, series_uid) ==
    SelectSeq([i \in 1..Len(images) |-> i],
              LAMBDA i : series_uid /= "" /\ images[i].image.SeriesUID = series_uid)

\* The images the for loop hands to convert_image, as indices into
\* self.images: the first image whose image_info[0]['SeriesUID'] equals a
\* non-empty series_uid, then break.
ScanMatches(images, series_uid) ==
    LET hit(i) == series_uid /= "" /\ images[i].image.SeriesUID = series_uid
    IN IF \E i \in 1..Len(images) : hit(i)
       THEN <<CHOOSE i \in 1..Len(images) :
                  hit(i) /\ \A j \in 1..(i - 1) : ~hit(j)>>
       ELSE <<>>

\* The convert_image calls of export_image(image, series_uid, export_path)
\* over self.images, in order.  raises_on is the number of the convert_image
\* call that raises (0: none does); the exception ends export_image.
ExportCalls(images, image, series_uid, raises_on) ==
    LET m == ScanMatches(images, series_uid)
        scan == [k \in 1..Len(m) |-> [im |-> images[m[k]], via |-> "scan"]]
        scan_raised == raises_on \in 1..Len(scan)
        explicit == IF Truthy(image) /\ ~scan_raised
                    THEN <<[im |-> image.v, via |-> "explicit"]>>
                    ELSE <<>>
        all == scan \o explicit
        made == IF raises_on \in 1..Len(all) THEN SubSeq(all, 1, raises_on)
                ELSE all
    IN [calls |-> made,
        scan_done |-> ~scan_raised,
        raised |-> raises_on \in 1..Len(all)]

\* The explicit image objects export_image is called with.
ImageArgs ==
    {None, Object([image |-> [ImageSetID |-> 1, SeriesUID |-> "1.2.3"]])}

\* The series_uid arguments: the default "", the UIDs of the dataset, and
\* one no image has.
SeriesUidArgs == {"", "9.9"} \cup SeriesUIDs

-----------------------------------------------------------------------------
(* The facade: one action per operation. *)

FacadeIdle ==
    /\ _patient_info = None
    /\ _plans = None
    /\ _images = None
    /\ reads = 0
    /\ plan_builds = 0
    /\ image_builds = 0
    /\ accesses = 0
    /\ ret = [op |-> "none", raised |-> FALSE]
    /\ converted = <<>>

\* Pinnacle.__init__ on a dataset whose Patient file reads as patient_file.
InitFacade ==
    /\ patient_file \in PatientFiles(SUBSET NameKeys)
    /\ FacadeIdle

\* The same, on datasets whose Patient file is complete or lacks its
\* DateOfBirth.
InitExport ==
    /\ patient_file \in PatientFiles({NameKeys, NameKeys \ {"DateOfBirth"}})
    /\ FacadeIdle

AccessPatientInfo ==
    /\ accesses < MaxAccess
    /\ LET g == PatientInfoGet(_patient_info, patient_file)
       IN /\ _patient_info' = g.pi
          /\ reads' = reads + g.read
          /\ ret' = [op |-> "patient_info", raised |-> g.raised,
                     value |-> IF g.raised THEN None ELSE g.pi]
    /\ accesses' = accesses + 1
    /\ UNCHANGED <<patient_file, _plans, _images, plan_builds, image_builds,
                   converted>>
    /\ UNCHANGED not_facade_vars

AccessPlans ==
    /\ accesses < MaxAccess
    /\ LET g == PlansGet(_plans, _patient_info, patient_file)
       IN /\ _patient_info' = g.pi
          /\ _plans' = g.plans
          /\ reads' = reads + g.read
          /\ plan_builds' = plan_builds + (IF g.raised THEN 0 ELSE g.built)
          /\ ret' = [op |-> "plans", raised |-> g.raised,
                     value |-> IF g.raised THEN None ELSE g.plans]
    /\ accesses' = accesses + 1
    /\ UNCHANGED <<patient_file, _images, image_builds, converted>>
    /\ UNCHANGED not_facade_vars

AccessImages ==
    /\ accesses < MaxAccess
    /\ LET g == ImagesGet(_images, _patient_info, patient_file)
       IN /\ _patient_info' = g.pi
          /\ _images' = g.images
          /\ reads' = reads + g.read
          /\ image_builds' = image_builds + (IF g.raised THEN 0 ELSE g.built)
          /\ ret' = [op |-> "images", raised |-> g.raised,
                     value |-> IF g.raised THEN None ELSE g.images]
    /\ accesses' = accesses + 1
    /\ UNCHANGED <<patient_file, _plans, plan_builds, converted>>
    /\ UNCHANGED not_facade_vars

ExportImage ==
    /\ accesses < MaxExports
    /\ \E image \in ImageArgs, series_uid \in SeriesUidArgs, raises_on \in 0..2 :
         LET g == ImagesGet(_images, _patient_info, patient_file)
             e == ExportCalls(g.images.v, image, series_uid, raises_on)
         IN /\ _patient_info' = g.pi
            /\ _images' = g.images
            /\ reads' = reads + g.read
            /\ image_builds' = image_builds + (IF g.raised THEN 0 ELSE g.built)
            /\ converted' = IF g.raised THEN <<>> ELSE e.calls
            /\ ret' = [op |-> "export_image",
                       raised |-> g.raised \/ e.raised,
                       scan_done |-> ~g.raised /\ e.scan_done,
                       image |-> image, series_uid |-> series_uid]
    /\ accesses' = accesses + 1
    /\ UNCHANGED <<patient_file, _plans, plan_builds>>
    /\ UNCHANGED not_facade_vars

-----------------------------------------------------------------------------
(* The DOB normalisation over dates of birth written with each delimiter.  *)

Delimiters == {"-", "/", " "}

Years == { <<"1","9","9","0">>, <<"2","0","0","1">> }
Months == { <<"1">>, <<"0","1">>, <<"9">>, <<"1","2">> }
Days == { <<"2">>, <<"0","2">>, <<"7">>, <<"3","1">> }

\* year, month and day joined by one delimiter.
JoinDob(parts, d) == parts[1] \o <<d>> \o parts[2] \o <<d>> \o parts[3]

DobIdle ==
    /\ dob_parts = <<>>
    /\ dob_out = <<>>

InitDob ==
    /\ dob_parts \in Years \X Months \X Days
    /\ dob_out = [d \in Delimiters |-> <<>>]

\* patient_info's DOB block on the date of birth written with delimiter d.
NormaliseDob ==
    \E d \in Delimiters :
        /\ dob_out[d] = <<>>
        /\ dob_out' = [dob_out EXCEPT ![d] = NormaliseDOB(JoinDob(dob_parts, d))]
        /\ UNCHANGED dob_parts
        /\ UNCHANGED not_dob_vars

-----------------------------------------------------------------------------
(* The RT Dose and RT Plan datasets of the model.                          *)
(* Coordinates and pixel values are integers; an interpolated dose is the  *)
(* exact fraction <<numerator, denominator>>.                              *)

ImplicitVRLittleEndian == "1.2.840.10008.1.2"
ExplicitVRLittleEndian == "1.2.840.10008.1.2.1"

\* A 2 x 2 x 2 grid and a grid of 2 slices, 2 rows and 3 columns;
\* pixel_array is indexed [frame (z)][row (y)][column (x)].
DoseGrids ==
    { [x |-> <<0, 2>>, y |-> <<0, 2>>, z |-> <<0, 2>>,
       pixel_array |-> << << <<1, 2>>, <<3, 5>> >>,
                          << <<4, 8>>, <<0, 7>> >> >>,
       DoseGridScaling |-> 2],
      [x |-> <<0, 2, 4>>, y |-> <<0, 2>>, z |-> <<0, 1>>,
       pixel_array |-> << << <<1, 2, 6>>, <<3, 5, 0>> >>,
                          << <<4, 8, 1>>, <<0, 7, 9>> >> >>,
       DoseGridScaling |-> 1] }

DoseDatasets ==
    { [x |-> g.x, y |-> g.y, z |-> g.z, pixel_array |-> g.pixel_array,
       DoseGridScaling |-> g.DoseGridScaling, TransferSyntaxUID |-> t] :
        g \in DoseGrids, t \in {ImplicitVRLittleEndian, ExplicitVRLittleEndian} }

GantryAngles == {0, 90}

\* A plan: the gantry angle of each beam, the explicit SurfaceEntryPoint
\* (None when absent), and the isocentre, SAD and SSD of the fallback.
PlanDatasets ==
    { [GantryAngle |-> ga, SurfaceEntryPoint |-> sep,
       IsocenterPosition |-> [x |-> 0, y |-> 2, z |-> 0],
       SourceAxisDistance |-> 10, SourceToSurfaceDistance |-> 9] :
        ga \in SeqsUpTo(GantryAngles, MaxBeams) \ {<<>>},
        sep \in {None, Object([x |-> 0, y |-> 0, z |-> 0]),
                 Object([x |-> 2, y |-> 0, z |-> 2])} }

-----------------------------------------------------------------------------
(* Collaborators of dose.py: rtplan and coords.                            *)

\* require_gantries_be_zero(plan) passes: every beam's gantry angle is zero.
RequireGantriesBeZero(plan) ==
    \A b \in 1..Len(plan.GantryAngle) : plan.GantryAngle[b] = 0

\* get_surface_entry_point_with_fallback(plan): the explicit point when the
\* plan has one, else the isocentre moved by SSD - SAD along y.
GetSurfaceEntryPointWithFallback(plan) ==
    IF plan.SurfaceEntryPoint.type /= "NoneType"
    THEN plan.SurfaceEntryPoint.v
    ELSE [x |-> plan.IsocenterPosition.x,
          y |-> plan.IsocenterPosition.y
                  + plan.SourceToSurfaceDistance - plan.SourceAxisDistance,
          z |-> plan.IsocenterPosition.z]

\* xyz_axes_from_dataset(dataset): the x, y and z axes of the dose grid.
XyzAxesFromDataset(ds) == <<ds.x, ds.y, ds.z>>

-----------------------------------------------------------------------------
(* dose.py: dose_from_dataset, zyx_and_dose_from_dataset,                  *)
(* dicom_dose_interpolate.                                                 *)

\* dose_from_dataset(ds, set_transfer_syntax_uid): the scaled dose array,
\* and the dataset as the call leaves it.
DoseFromDataset(ds, set_transfer_syntax_uid) ==
    [ds |-> IF set_transfer_syntax_uid
            THEN [ds EXCEPT !.TransferSyntaxUID = ImplicitVRLittleEndian]
            ELSE ds,
     dose |-> [k \in 1..Len(ds.pixel_array) |->
                 [j \in 1..Len(ds.pixel_array[k]) |->
                    [i \in 1..Len(ds.pixel_array[k][j]) |->
                        ds.pixel_array[k][j][i] * ds.DoseGridScaling]]]]

\* zyx_and_dose_from_dataset(dataset)
ZyxAndDoseFromDataset(ds) ==
    LET xyz == XyzAxesFromDataset(ds)
        d == DoseFromDataset(ds, TRUE)
    IN [coords |-> <<xyz[3], xyz[2], xyz[1]>>, dose |-> d.dose, ds |-> d.ds]

\* RegularGridInterpolator: a query outside the axis is out of bounds.
InBounds(axis, q) == axis[1] <= q /\ q <= axis[Len(axis)]

\* The interval of the axis a query falls in: the last grid point at or
\* below it, kept below the last point.
IntervalOf(axis, q) ==
    LET below == {i \in 1..(Len(axis) - 1) : axis[i] <= q}
    IN CHOOSE i \in below : \A j \in below : j <= i

\* Linear interpolation over the grid at one point (qz, qy, qx): the sum
\* over the 8 corners of the cell of weight * value, as a fraction.
InterpolateAt(coords, dose, qz, qy, qx) ==
    LET az == coords[1]
        ay == coords[2]
        ax == coords[3]
        k == IntervalOf(az, qz)
        j == IntervalOf(ay, qy)
        i == IntervalOf(ax, qx)
        w(axis, n, q, hi) == IF hi = 1 THEN q - axis[n] ELSE axis[n + 1] - q
        term(a, b, c) == w(az, k, qz, a) * w(ay, j, qy, b) * w(ax, i, qx, c)
                             * dose[k + a][j + b][i + c]
    IN << term(0, 0, 0) + term(0, 0, 1) + term(0, 1, 0) + term(0, 1, 1)
            + term(1, 0, 0) + term(1, 0, 1) + term(1, 1, 0) + term(1, 1, 1),
          (az[k + 1] - az[k]) * (ay[j + 1] - ay[j]) * (ax[i + 1] - ax[i]) >>

\* dicom_dose_interpolate(interp_coords, dicom_dose_dataset): the array over
\* the outer product of the z, y and x queries, or the interpolator's
\* ValueError for a query out of bounds.
DicomDoseInterpolate(interp_coords, ds) ==
    LET interp_z == interp_coords[1]
        interp_y == interp_coords[2]
        interp_x == interp_coords[3]
        g == ZyxAndDoseFromDataset(ds)
        ok == /\ \A a \in 1..Len(interp_z) : InBounds(g.coords[1], interp_z[a])
              /\ \A b \in 1..Len(interp_y) : InBounds(g.coords[2], interp_y[b])
              /\ \A c \in 1..Len(interp_x) : InBounds(g.coords[3], interp_x[c])
    IN IF ~ok THEN [raised |-> TRUE, result |-> <<>>, ds |-> g.ds]
       ELSE [raised |-> FALSE,
             result |-> [a \in 1..Len(interp_z) |->
                           [b \in 1..Len(interp_y) |->
                              [c \in 1..Len(interp_x) |->
                                  InterpolateAt(g.coords, g.dose, interp_z[a],
                                                interp_y[b], interp_x[c])]]],
             ds |-> g.ds]

\* np.squeeze of a 3-D array: the axes of length 1 are dropped.
Squeeze(a) ==
    LET nz == Len(a)
        ny == Len(a[1])
        nx == Len(a[1][1])
    IN [shape |-> SelectSeq(<<nz, ny, nx>>, LAMBDA n : n /= 1),
        data |-> [n \in 1..(nz * ny * nx) |->
                    a[((n - 1) \div (ny * nx)) + 1]
                     [(((n - 1) \div nx) % ny) + 1]
                     [((n - 1) % nx) + 1]]]

-----------------------------------------------------------------------------
(* dose.py: depth_dose and profile.                                        *)
(* Each operator gives the outcome, the collaborators called in order, the *)
(* (z, y, x) query handed to the interpolator, the value returned and the  *)
(* dose dataset as the call leaves it.                                     *)

Raise(error, trace, coords, ds) ==
    [outcome |-> error, trace |-> trace, coords |-> coords, value |-> <<>>,
     ds |-> ds]

\* array + scalar
AddScalar(a, c) == [n \in 1..Len(a) |-> a[n] + c]

\* The tail of depth_dose and of profile: interpolate and squeeze.
ExtractDose(trace, coords, ds) ==
    LET r == DicomDoseInterpolate(coords, ds)
        t == trace \o <<"dicom_dose_interpolate">>
    IN IF r.raised THEN Raise("ValueError: out of bounds", t, coords, r.ds)
       ELSE [outcome |-> "returned", trace |-> t, coords |-> coords,
             value |-> Squeeze(r.result), ds |-> r.ds]

\* depth_dose without its gantry check (a plausible slip).
DepthDoseUnchecked(depths, ds, plan) ==
    LET surface_entry_point == GetSurfaceEntryPointWithFallback(plan)
    IN ExtractDose(<<"get_surface_entry_point_with_fallback">>,
                   << <<surface_entry_point.z>>,
                      AddScalar(depths, surface_entry_point.y),
                      <<surface_entry_point.x>> >>, ds)

\* depth_dose(depths, dose_dataset, plan_dataset)
DepthDose(depths, ds, plan) ==
    IF ~RequireGantriesBeZero(plan)
    THEN Raise("ValueError: gantry not zero", <<"require_gantries_be_zero">>,
               <<>>, ds)
    ELSE LET surface_entry_point == GetSurfaceEntryPointWithFallback(plan)
             depth_adjust == surface_entry_point.y
             y == AddScalar(depths, depth_adjust)
             coords == << <<surface_entry_point.z>>, y, <<surface_entry_point.x>> >>
         IN ExtractDose(<<"require_gantries_be_zero",
                          "get_surface_entry_point_with_fallback">>, coords, ds)

\* profile that takes an unknown direction for 'crossplane' (a plausible
\* slip).
ProfileCoordsDefaulting(displacements, y, direction, surface_entry_point) ==
    IF direction \in {"inplane", "inline"}
    THEN << AddScalar(displacements, surface_entry_point.z), y,
            <<surface_entry_point.x>> >>
    ELSE << <<surface_entry_point.z>>, y,
            AddScalar(displacements, surface_entry_point.x) >>

\* profile that measures displacements from the isocentre's side, i.e. that
\* drops the entry point's offset (a plausible slip).
ProfileCoordsNoOffset(displacements, y, direction, surface_entry_point) ==
    IF direction \in {"inplane", "inline"}
    THEN << displacements, y, <<surface_entry_point.x>> >>
    ELSE IF direction \in {"crossplane", "crossline"}
    THEN << <<surface_entry_point.z>>, y, displacements >>
    ELSE None

\* The coords of profile for a direction, None for a direction that is none
\* of the four.
ProfileCoords(displacements, y, direction, surface_entry_point) ==
    IF direction \in {"inplane", "inline"}
    THEN << AddScalar(displacements, surface_entry_point.z), y,
            <<surface_entry_point.x>> >>
    ELSE IF direction \in {"crossplane", "crossline"}
    THEN << <<surface_entry_point.z>>, y,
            AddScalar(displacements, surface_entry_point.x) >>
    ELSE None

\* profile(displacements, depth, direction, dose_dataset, plan_dataset)
Profile(displacements, depth, direction, ds, plan) ==
    IF ~RequireGantriesBeZero(plan)
    THEN Raise("ValueError: gantry not zero", <<"require_gantries_be_zero">>,
               <<>>, ds)
    ELSE LET surface_entry_point == GetSurfaceEntryPointWithFallback(plan)
             depth_adjust == surface_entry_point.y
             y == <<depth + depth_adjust>>
             coords == ProfileCoords(displacements, y, direction,
                                     surface_entry_point)
             trace == <<"require_gantries_be_zero",
                        "get_surface_entry_point_with_fallback">>
         IN IF coords = None
            THEN Raise("ValueError: expected direction", trace, <<>>, ds)
            ELSE ExtractDose(trace, coords, ds)

-----------------------------------------------------------------------------
(* The toolbox: one call of depth_dose or profile on a plan and a dose.    *)

Depths == {0, 1, 3}
Displacements == {-1, 0, 1}
Directions == {"inplane", "inline", "crossplane", "crossline", "diagonal"}

DoseIdle ==
    /\ dose_dataset = <<>>
    /\ plan_dataset = <<>>
    /\ dose_ret = [op |-> "none"]

InitDose ==
    /\ dose_dataset \in DoseDatasets
    /\ plan_dataset \in PlanDatasets
    /\ dose_ret = [op |-> "none"]

CallDepthDose ==
    /\ dose_ret.op = "none"
    /\ \E depths \in SeqsUpTo(Depths, MaxQuery) \ {<<>>} :
         LET r == DepthDose(depths, dose_dataset, plan_dataset)
         IN /\ dose_ret' = [op |-> "depth_dose", depths |-> depths,
                            outcome |-> r.outcome, trace |-> r.trace,
                            coords |-> r.coords, value |-> r.value,
                            before |-> dose_dataset]
            /\ dose_dataset' = r.ds
    /\ UNCHANGED plan_dataset
    /\ UNCHANGED not_dose_vars

CallProfile ==
    /\ dose_ret.op = "none"
    /\ \E displacements \in SeqsUpTo(Displacements, MaxQuery) \ {<<>>},
          depth \in {0, 1}, direction \in Directions :
         LET r == Profile(displacements, depth, direction, dose_dataset,
                          plan_dataset)
         IN /\ dose_ret' = [op |-> "profile", displacements |-> displacements,
                            depth |-> depth, direction |-> direction,
                            outcome |-> r.outcome, trace |-> r.trace,
                            coords |-> r.coords, value |-> r.value,
                            before |-> dose_dataset]
            /\ dose_dataset' = r.ds
    /\ UNCHANGED plan_dataset
    /\ UNCHANGED not_dose_vars

-----------------------------------------------------------------------------
(* Structures: the contours of one named structure.                        *)

\* Closed polygons as vertex lists <<x, y>>.  No dose-grid sample point
\* lies on an edge.  The first holds no sample point, the second (0, 0),
\* the third (0, 0), (2, 0) and (0, 2).
Polygons ==
    { << <<1, 0>>, <<1, 1>>, <<0, 1>> >>,
      << <<-1, -1>>, <<1, -1>>, <<1, 1>>, <<-1, 1>> >>,
      << <<-1, -1>>, <<5, -1>>, <<-1, 3>> >> }

ContourZs == {0, 1, 2}

\* The contours of a structure: each a polygon on the slice at z.
Structures ==
    SeqsUpTo({[z |-> z, polygon |-> pg] : z \in ContourZs, pg \in Polygons},
             MaxContours)

\* pull_structure(structure_name, dcm_struct): per contour, the x, the y and
\* the z coordinate of each of its points.
PullStructure(struct) ==
    [x |-> [c \in 1..Len(struct) |->
              [n \in 1..Len(struct[c].polygon) |-> struct[c].polygon[n][1]]],
     y |-> [c \in 1..Len(struct) |->
              [n \in 1..Len(struct[c].polygon) |-> struct[c].polygon[n][2]]],
     z |-> [c \in 1..Len(struct) |->
              [n \in 1..Len(struct[c].polygon) |-> struct[c].z]]]

-----------------------------------------------------------------------------
(* dose.py: _get_indices and get_dose_grid_structure_mask.                 *)

\* Path(vertices).contains_points for one point: the crossings test over
\* the edges of the closed polygon.
ContainsPoint(vx, vy, tx, ty) ==
    LET n == Len(vx)
        prev(e) == IF e = 1 THEN n ELSE e - 1
        crosses(e) ==
            LET x0 == vx[prev(e)]
                y0 == vy[prev(e)]
                x1 == vx[e]
                y1 == vy[e]
                yflag0 == y0 >= ty
                yflag1 == y1 >= ty
            IN /\ yflag0 /= yflag1
               /\ (((y1 - ty) * (x0 - x1) >= (x1 - tx) * (y0 - y1)) <=> yflag1)
    IN Cardinality({e \in 1..n : crosses(e)}) % 2 = 1

\* _get_indices(z_list, z_val): the contours whose z equals z_val.
GetIndices(z_list, z_val) ==
    SelectSeq([c \in 1..Len(z_list) |-> c], LAMBDA c : z_list[c][1] = z_val)

\* A slice lookup that takes the nearest dose slice (a plausible slip).
DoseIndexNearest(z_dose, z_val) ==
    LET dist(k) == IF z_dose[k] >= z_val THEN z_dose[k] - z_val
                   ELSE z_val - z_dose[k]
    IN CHOOSE k \in 1..Len(z_dose) :
           \A m \in 1..Len(z_dose) :
               dist(k) < dist(m) \/ (dist(k) = dist(m) /\ k <= m)

\* int(np.where(z_dose == z_val)[0]): the index of the one dose slice at
\* z_val; 0 stands for the TypeError raised when the slices at z_val are
\* not exactly one.
DoseIndex(z_dose, z_val) ==
    LET hits == {k \in 1..Len(z_dose) : z_dose[k] = z_val}
    IN IF Cardinality(hits) = 1 THEN CHOOSE k \in hits : TRUE ELSE 0

\* A slice update that keeps only the last polygon (a plausible slip).
MergePlaneOverwrite(old, new) == new

\* mask[:, :, k] | contains: one voxel of the slice.
MergePlane(old, new) == old \/ new

\* The body of the inner loop for contour c: the mask after it, or the error.
MaskStep(m, c, pulled, x_dose, y_dose, z_dose) ==
    LET dose_index == DoseIndex(z_dose, pulled.z[c][1])
    IN IF dose_index = 0 THEN [raised |-> TRUE, mask |-> m.mask]
       ELSE [raised |-> FALSE,
             mask |-> [j \in 1..Len(y_dose) |->
                         [i \in 1..Len(x_dose) |->
                            [k \in 1..Len(z_dose) |->
                               IF k = dose_index
                               THEN MergePlane(m.mask[j][i][k],
                                        ContainsPoint(pulled.x[c], pulled.y[c],
                                                      x_dose[i], y_dose[j]))
                               ELSE m.mask[j][i][k]]]]]

\* The two nested loops, as the list of contours the inner body runs on.
RECURSIVE MaskLoop(_, _, _, _, _, _)
MaskLoop(m, todo, pulled, x_dose, y_dose, z_dose) ==
    IF todo = <<>> \/ m.raised THEN m
    ELSE MaskLoop(MaskStep(m, Head(todo), pulled, x_dose, y_dose, z_dose),
                  Tail(todo), pulled, x_dose, y_dose, z_dose)

RECURSIVE Flatten(_)
Flatten(seqs) == IF seqs = <<>> THEN <<>> ELSE Head(seqs) \o Flatten(Tail(seqs))

\* get_dose_grid_structure_mask(structure_name, dcm_struct, dcm_dose)
GetDoseGridStructureMask(struct, ds) ==
    LET xyz == XyzAxesFromDataset(ds)
        x_dose == xyz[1]
        y_dose == xyz[2]
        z_dose == xyz[3]
        pulled == PullStructure(struct)
        structure_z_values == [c \in 1..Len(pulled.z) |-> pulled.z[c][1]]
        zeros == [j \in 1..Len(y_dose) |->
                    [i \in 1..Len(x_dose) |-> [k \in 1..Len(z_dose) |-> FALSE]]]
        todo == Flatten([c \in 1..Len(structure_z_values) |->
                            GetIndices(pulled.z, structure_z_values[c])])
    IN MaskLoop([raised |-> FALSE, mask |-> zeros], todo, pulled,
                x_dose, y_dose, z_dose)

-----------------------------------------------------------------------------
(* dose.py: find_dose_within_structure and create_dvh.                     *)

\* The shape of a 3-D array.
Shape3(a) == <<Len(a), Len(a[1]), Len(a[1][1])>>

\* dose[mask] for a boolean mask of the shape of dose: the selected values
\* in C order.
BoolIndex(dose, mask) ==
    LET sh == Shape3(dose)
        at(a, n) == a[((n - 1) \div (sh[2] * sh[3])) + 1]
                     [(((n - 1) \div sh[3]) % sh[2]) + 1]
                     [((n - 1) % sh[3]) + 1]
        picked == SelectSeq([n \in 1..(sh[1] * sh[2] * sh[3]) |-> n],
                            LAMBDA n : at(mask, n))
    IN [n \in 1..Len(picked) |-> at(dose, picked[n])]

\* find_dose_within_structure(structure_name, dcm_struct, dcm_dose)
FindDoseWithinStructure(struct, ds) ==
    LET d == DoseFromDataset(ds, TRUE)
        m == GetDoseGridStructureMask(struct, ds)
    IN IF m.raised
       THEN [outcome |-> "TypeError: slice lookup", values |-> <<>>, ds |-> d.ds]
       ELSE IF Shape3(m.mask) /= Shape3(d.dose)
       THEN [outcome |-> "IndexError: boolean index", values |-> <<>>, ds |-> d.ds]
       ELSE [outcome |-> "returned", values |-> BoolIndex(d.dose, m.mask),
             ds |-> d.ds]

\* The number of bins of the DVH.
NBins == 100

SeqMin(v) == CHOOSE a \in {v[n] : n \in 1..Len(v)} : \A n \in 1..Len(v) : a <= v[n]
SeqMax(v) == CHOOSE a \in {v[n] : n \in 1..Len(v)} : \A n \in 1..Len(v) : a >= v[n]

\* The bin (1..bins) np.histogram puts a value in: equal-width bins over
\* [min, max], the maximum in the last bin; over [v - 0.5, v + 0.5] when all
\* values are equal.
BinOf(a, lo, hi, bins) ==
    IF lo = hi THEN (bins \div 2) + 1
    ELSE IF a = hi THEN bins
    ELSE (((a - lo) * bins) \div (hi - lo)) + 1

\* np.histogram(values, bins)[0]
Histogram(values, bins) ==
    IF values = <<>> THEN [b \in 1..bins |-> 0]
    ELSE LET lo == SeqMin(values)
             hi == SeqMax(values)
             bin == [n \in 1..Len(values) |-> BinOf(values[n], lo, hi, bins)]
         IN [b \in 1..bins |-> Cardinality({n \in 1..Len(values) : bin[n] = b})]

\* a[::-1]
Reverse(a) == [n \in 1..Len(a) |-> a[Len(a) + 1 - n]]

\* a[lo] + ... + a[hi], summed by halves.
RECURSIVE SumRange(_, _, _)
SumRange(a, lo, hi) ==
    IF lo > hi THEN 0
    ELSE IF lo = hi THEN a[lo]
    ELSE LET mid == (lo + hi) \div 2
         IN SumRange(a, lo, mid) + SumRange(a, mid + 1, hi)

\* np.cumsum(a): entry n is the sum of the first n entries.
CumSum(a) == [n \in 1..Len(a) |-> SumRange(a, 1, n)]

\* A cumulative sum taken from the low-dose end (a plausible slip).
CumulativeForward(freq) == CumSum(freq)

\* np.cumsum(freq[::-1]) reversed again: the count at or above each bin.
Cumulative(freq) == Reverse(CumSum(Reverse(freq)))

\* create_dvh(structure, dcm_struct, dcm_dose), up to the plot: the
\* cumulative percent volume, each entry the fraction <<numerator,
\* denominator>> (<<0, 0>> is the nan of 0 / 0).
CreateDvh(struct, ds) ==
    LET f == FindDoseWithinStructure(struct, ds)
    IN IF f.outcome /= "returned"
       THEN [outcome |-> f.outcome, values |-> <<>>, percent_cumulative |-> <<>>,
             ds |-> f.ds]
       ELSE LET freq == Histogram(f.values, NBins)
                cumulative == Cumulative(freq)
                anchored == <<Head(cumulative)>> \o cumulative
            IN [outcome |-> "returned", values |-> f.values,
                percent_cumulative |->
                    [n \in 1..Len(anchored) |->
                        <<anchored[n] * 100, Head(anchored)>>],
                ds |-> f.ds]

-----------------------------------------------------------------------------
(* The toolbox: one call of the mask or DVH functions.                     *)

VolIdle ==
    /\ dcm_struct = <<>>
    /\ vol_ret = [op |-> "none"]

InitVol ==
    /\ dose_dataset \in DoseDatasets
    /\ dcm_struct \in Structures
    /\ vol_ret = [op |-> "none"]

CallGetDoseGridStructureMask ==
    /\ vol_ret.op = "none"
    /\ LET m == GetDoseGridStructureMask(dcm_struct, dose_dataset)
       IN vol_ret' = [op |-> "get_dose_grid_structure_mask",
                      outcome |-> IF m.raised THEN "TypeError: slice lookup"
                                  ELSE "returned",
                      mask |-> IF m.raised THEN <<>> ELSE m.mask,
                      before |-> dose_dataset]
    /\ UNCHANGED <<dose_dataset, dcm_struct>>
    /\ UNCHANGED not_vol_vars

CallFindDoseWithinStructure ==
    /\ vol_ret.op = "none"
    /\ LET f == FindDoseWithinStructure(dcm_struct, dose_dataset)
       IN /\ vol_ret' = [op |-> "find_dose_within_structure",
                         outcome |-> f.outcome, values |-> f.values,
                         before |-> dose_dataset]
          /\ dose_dataset' = f.ds
    /\ UNCHANGED dcm_struct
    /\ UNCHANGED not_vol_vars

CallCreateDvh ==
    /\ vol_ret.op = "none"
    /\ LET h == CreateDvh(dcm_struct, dose_dataset)
       IN /\ vol_ret' = [op |-> "create_dvh", outcome |-> h.outcome,
                         values |-> h.values,
                         percent_cumulative |-> h.percent_cumulative,
                         before |-> dose_dataset]
          /\ dose_dataset' = h.ds
    /\ UNCHANGED dcm_struct
    /\ UNCHANGED not_vol_vars

-----------------------------------------------------------------------------
(* Specifications. *)

\* The cached properties of one facade.
Init == InitFacade /\ DobIdle /\ DoseIdle /\ VolIdle
Next ==
    \/ AccessPatientInfo
    \/ AccessPlans
    \/ AccessImages
Spec == Init /\ [][Next]_vars

\* export_image on one facade.
InitE == InitExport /\ DobIdle /\ DoseIdle /\ VolIdle
NextE ==
    \/ ExportImage
    \/ AccessImages
SpecExport == InitE /\ [][NextE]_vars

\* The DOB block of patient_info.
InitD == InitDob /\ patient_file = <<>> /\ FacadeIdle /\ DoseIdle /\ VolIdle
NextD == NormaliseDob
SpecDob == InitD /\ [][NextD]_vars

\* depth_dose and profile.
InitQ == InitDose /\ patient_file = <<>> /\ FacadeIdle /\ DobIdle /\ VolIdle
NextQ ==
    \/ CallDepthDose
    \/ CallProfile
SpecDose == InitQ /\ [][NextQ]_vars

\* The structure mask and the DVH.
InitV ==
    /\ InitVol
    /\ plan_dataset = <<>>
    /\ dose_ret = [op |-> "none"]
    /\ patient_file = <<>>
    /\ FacadeIdle
    /\ DobIdle
NextV ==
    \/ CallGetDoseGridStructureMask
    \/ CallFindDoseWithinStructure
    \/ CallCreateDvh
SpecVol == InitV /\ [][NextV]_vars

-----------------------------------------------------------------------------
(* Claims about the facade. *)

\* C1: on one facade, each of the three cached views is computed at most
\* once, whatever the patient record: the Patient file is read at most once
\* and the plan list and the image list are each built at most once.
C1_ComputedAtMostOnce ==
    /\ reads <= 1
    /\ plan_builds <= 1
    /\ image_builds <= 1

\* C10: every patient_info access that returns a record returns one that
\* holds both FullName and DOB, also after an access that raised.
C10_ReturnedRecordIsComplete ==
    (ret.op = "patient_info" /\ ~ret.raised)
        => {"FullName", "DOB"} \subseteq DOMAIN ret.value.v

\* The convert_image calls of the last export_image made by the scan, and
\* those made for the explicit image.
ScanCalls == SelectSeq(converted, LAMBDA c : c.via = "scan")
ExplicitCalls == SelectSeq(converted, LAMBDA c : c.via = "explicit")

\* Image i of self.images matches the series_uid of the last export_image.
Matches(i) ==
    /\ ret.series_uid /= ""
    /\ _images.v[i].image.SeriesUID = ret.series_uid

\* C2: in one export_image call the scan converts at most one image, the
\* first one of the list whose SeriesUID equals a non-empty series_uid, and
\* none when series_uid is empty or unmatched; once the scan has finished, a
\* supplied image object is converted exactly once, after the scan's call;
\* so convert_image is called 0, 1 or 2 times.
C2_ExportImageCalls ==
    ret.op = "export_image" =>
        /\ Len(ScanCalls) <= 1
        /\ \A k \in 1..Len(ScanCalls) :
              \E i \in 1..Len(_images.v) :
                  /\ ScanCalls[k].im = _images.v[i]
                  /\ Matches(i)
                  /\ \A j \in 1..(i - 1) : ~Matches(j)
        /\ (_images.type = "list" /\ \E i \in 1..Len(_images.v) : Matches(i))
              => Len(ScanCalls) = 1
        /\ (ret.scan_done /\ Truthy(ret.image))
              => /\ Len(ExplicitCalls) = 1
                 /\ ExplicitCalls[1].im = ret.image.v
                 /\ converted[Len(converted)].via = "explicit"
        /\ ~Truthy(ret.image) => Len(ExplicitCalls) = 0
        /\ Len(converted) \in 0..2
        /\ \A a, b \in 1..Len(converted) :
              (converted[a].via = "explicit" /\ converted[b].via = "scan") => b < a

\* C2's case: one call converted a scan match and then the explicit image,
\* with a second matching image left unconverted.
C2_Witness ==
    /\ ret.op = "export_image"
    /\ Len(converted) = 2
    /\ converted[1].via = "scan"
    /\ converted[2].via = "explicit"
    /\ Cardinality({i \in 1..Len(_images.v) : Matches(i)}) = 2

-----------------------------------------------------------------------------
(* Claims about the DOB normalisation. *)

Digits == {"0", "1", "2", "3", "4", "5", "6", "7", "8", "9"}

\* YYYYMMDD for the date of birth of the state.
CanonicalDob ==
    LET two(c) == IF Len(c) = 1 THEN <<"0">> \o c ELSE c
    IN dob_parts[1] \o two(dob_parts[2]) \o two(dob_parts[3])

\* C4: a date of birth made of a 4-digit year and a 1- or 2-digit month and
\* day normalises to the same 8-digit string YYYYMMDD whichever of the
\* delimiters '-', '/' and ' ' joins it.
C4_DobCanonical ==
    \A d \in Delimiters :
        dob_out[d] /= <<>> =>
            /\ Len(dob_out[d]) = 8
            /\ \A i \in 1..8 : dob_out[d][i] \in Digits
            /\ dob_out[d] = CanonicalDob
            /\ \A e \in Delimiters : dob_out[e] /= <<>> => dob_out[e] = dob_out[d]

\* C4's case: a date with a one-digit month and day, normalised under all
\* three delimiters.
C4_Witness ==
    /\ Len(dob_parts[2]) = 1
    /\ Len(dob_parts[3]) = 1
    /\ \A d \in Delimiters : dob_out[d] /= <<>>

-----------------------------------------------------------------------------
(* Claims about depth_dose and profile. *)

AcceptedDirections == {"inplane", "inline", "crossplane", "crossline"}

\* The last call was profile with a direction that is none of the four.
ProfileWithBadDirection ==
    /\ dose_ret.op = "profile"
    /\ dose_ret.direction \notin AcceptedDirections

\* C3 as stated: profile with a direction outside the four accepted values
\* always fails with the invalid-argument ValueError, whatever the plan's
\* gantry angles or entry-point metadata.
C3_AlwaysInvalidArgument ==
    ProfileWithBadDirection => dose_ret.outcome = "ValueError: expected direction"

\* C3, amended: profile with a direction outside the four accepted values
\* never returns a dose and never reaches the interpolator; it fails with
\* the invalid-argument ValueError when the plan passes the gantry-zero
\* check, and with that check's error when the plan fails it.
C3_BadDirectionFails ==
    ProfileWithBadDirection =>
        /\ dose_ret.outcome /= "returned"
        /\ dose_ret.value = <<>>
        /\ \A n \in 1..Len(dose_ret.trace) :
              dose_ret.trace[n] /= "dicom_dose_interpolate"
        /\ RequireGantriesBeZero(plan_dataset)
              => dose_ret.outcome = "ValueError: expected direction"
        /\ ~RequireGantriesBeZero(plan_dataset)
              => dose_ret.outcome = "ValueError: gantry not zero"

\* C3's case: an unknown direction on a gantry-zero plan.
C3_Witness ==
    /\ ProfileWithBadDirection
    /\ RequireGantriesBeZero(plan_dataset)
    /\ dose_ret.outcome = "ValueError: expected direction"

\* C5: on a gantry-zero plan, profile([0], depth, direction) for each of the
\* four directions queries the interpolator at the point depth_dose([depth])
\* queries, (entry.z, entry.y + depth, entry.x), and ends as it does, with
\* the same dose.
C5_ZeroDisplacementIsDepthDose ==
    ( /\ dose_ret.op = "profile"
      /\ dose_ret.displacements = <<0>>
      /\ dose_ret.direction \in AcceptedDirections
      /\ RequireGantriesBeZero(plan_dataset) )
    => LET dd == DepthDose(<<dose_ret.depth>>, dose_ret.before, plan_dataset)
           entry == GetSurfaceEntryPointWithFallback(plan_dataset)
       IN /\ dose_ret.coords = << <<entry.z>>, <<entry.y + dose_ret.depth>>,
                                  <<entry.x>> >>
          /\ dose_ret.coords = dd.coords
          /\ dose_ret.outcome = dd.outcome
          /\ dose_ret.value = dd.value

\* C5's case: a zero-displacement inplane profile that returned a dose, on a
\* plan whose entry point is off the isocentre in x, y and z.
C5_Witness ==
    /\ dose_ret.op = "profile"
    /\ dose_ret.displacements = <<0>>
    /\ dose_ret.direction = "inplane"
    /\ dose_ret.depth = 1
    /\ dose_ret.outcome = "returned"
    /\ dose_ret.coords = << <<2>>, <<1>>, <<2>> >>
    /\ plan_dataset.IsocenterPosition = [x |-> 0, y |-> 2, z |-> 0]

\* C8: on a plan that fails the gantry-zero check, depth_dose and profile
\* fail with that check's error before the entry point is resolved and
\* before the dose grid is read or interpolated; no dose is returned.
C8_GantryCheckFirst ==
    (dose_ret.op \in {"depth_dose", "profile"} /\ ~RequireGantriesBeZero(plan_dataset))
    => /\ dose_ret.outcome = "ValueError: gantry not zero"
       /\ dose_ret.trace = <<"require_gantries_be_zero">>
       /\ dose_ret.value = <<>>
       /\ dose_dataset = dose_ret.before

\* C8's case: depth_dose on a plan whose second beam is at gantry 90, on a
\* dataset an interpolation would have touched.
C8_Witness ==
    /\ dose_ret.op = "depth_dose"
    /\ plan_dataset.GantryAngle = <<0, 90>>
    /\ dose_ret.outcome = "ValueError: gantry not zero"
    /\ dose_dataset.TransferSyntaxUID = ExplicitVRLittleEndian

-----------------------------------------------------------------------------
(* Claims about the structure mask and the DVH. *)

\* Some contour of the structure lies at a z that is not the z of exactly
\* one dose slice.
SliceMismatch ==
    \E c \in 1..Len(dcm_struct) :
        Cardinality({k \in 1..Len(dose_dataset.z) :
                        dose_dataset.z[k] = dcm_struct[c].z}) /= 1

\* C7: when some contour's z is not the z of exactly one dose slice,
\* get_dose_grid_structure_mask raises and returns no mask (and so do
\* find_dose_within_structure and create_dvh, which call it).
C7_MismatchRaises ==
    (vol_ret.op /= "none" /\ SliceMismatch)
    => /\ vol_ret.outcome = "TypeError: slice lookup"
       /\ vol_ret.op = "get_dose_grid_structure_mask" => vol_ret.mask = <<>>

\* C7's case: the mask of a structure whose first contour is on a dose
\* slice and inside the grid, and whose second contour is between slices.
C7_Witness ==
    /\ vol_ret.op = "get_dose_grid_structure_mask"
    /\ Len(dcm_struct) = 2
    /\ dcm_struct[1].z = 0
    /\ dcm_struct[1].polygon = << <<-1, -1>>, <<5, -1>>, <<-1, 3>> >>
    /\ dcm_struct[2].z = 1
    /\ dose_dataset.z = <<0, 2>>
    /\ vol_ret.outcome = "TypeError: slice lookup"

\* Contour c holds the sample point (x, y).
ContourHolds(c, x, y) ==
    ContainsPoint([n \in 1..Len(dcm_struct[c].polygon) |-> dcm_struct[c].polygon[n][1]],
                  [n \in 1..Len(dcm_struct[c].polygon) |-> dcm_struct[c].polygon[n][2]],
                  x, y)

C6_DvhNonIncreasingFrom100 ==
    (vol_ret.op = "create_dvh" /\ vol_ret.outcome = "returned"
        /\ Len(vol_ret.values) > 0)
    => LET pc == vol_ret.percent_cumulative
       IN /\ Len(pc) = NBins + 1
          /\ pc[1][2] > 0
          /\ pc[1][1] = 100 * pc[1][2]
          /\ \A n \in 1..(Len(pc) - 1) :
                /\ pc[n + 1][2] > 0
                /\ pc[n + 1][1] * pc[n][2] <= pc[n][1] * pc[n + 1][2]

\* C6's case: a DVH over three voxels of different dose, down to a third of
\* the volume in the last bin.
C6_Witness ==
    /\ vol_ret.op = "create_dvh"
    /\ vol_ret.outcome = "returned"
    /\ Len(vol_ret.values) = 3
    /\ vol_ret.percent_cumulative[1] = <<300, 3>>
    /\ vol_ret.percent_cumulative[NBins + 1] = <<100, 3>>

\* C11: the dose, structure and plan datasets are read-only inputs: no
\* operation of the toolbox, whether it returns or raises, changes any field
\* of a dataset it was handed (pixel data, scaling, axes, transfer syntax
\* UID).
C11_DatasetsReadOnly ==
    [][/\ dose_dataset' = dose_dataset
       /\ plan_dataset' = plan_dataset
       /\ dcm_struct' = dcm_struct]_vars

=============================================================================
